---- MODULE Spec2Model ----
(***************************************************************************)
(* State-machine model of contracts/FinancialRecommendationFHE.sol.        *)
(*                                                                         *)
(* Every public function of the contract is one action.  A Solidity call   *)
(* that reverts rolls back all of its storage writes, so a reverted call   *)
(* leaves the contract storage as it was.  Two ghost variables record what  *)
(* the chain's transaction log shows: lastCall, the last call made with    *)
(* its outcome and the events it emitted, and resolved, the request ids    *)
(* for which a callback has been accepted.                                 *)
(*                                                                         *)
(* The FHE library is outside the repository.  An euint32 handle is        *)
(* modelled as the one-element sequence holding its plaintext, the         *)
(* uninitialised handle (storage default) as the empty sequence.  The      *)
(* decryption oracle hands out request ids from a counter; a proof is the  *)
(* oracle's signature over (requestId, cleartexts).  Payload words are     *)
(* naturals below 2^31; the uint32 arithmetic on them keeps its 32-bit     *)
(* width and panics on overflow.  msg.sender is an input of the two        *)
(* request functions, which the contract never reads.                      *)
(*                                                                         *)
(* Spec is the contract under every caller and every callback; SpecCompute *)
(* is the contract with one profile, drawn from ComputeInputs, under a     *)
(* client and an oracle that follow the protocol; SpecLive adds the        *)
(* oracle's fairness to it.  SpecFrontend is the web frontend (App.tsx):   *)
(* browser sessions that run submitProduct and loadProducts against the    *)
(* key-value store they read with getData and write with setData;          *)
(* SpecDecide is the frontend once a product is stored, under its          *)
(* approveProduct and rejectProduct handlers.                              *)
(*                                                                         *)
(* block.timestamp is an input of the chain that no function of the        *)
(* contract reads back or branches on: the fields timestamp and            *)
(* generatedAt are written once, together with the rest of their record,   *)
(* and are left out of the records and of the ProfileSubmitted event.      *)
(***************************************************************************)
EXTENDS Integers, Sequences, FiniteSets, TLC

(* ---- bounds of the model ---- *)
MaxProfiles == 2
MaxRecs == 2
MaxReq == 2

MaxSubject == IF MaxProfiles > MaxRecs THEN MaxProfiles ELSE MaxRecs

\* subject ids a caller may name: 0, existing ids and ids not yet assigned
SubjectIds == 0..MaxSubject
\* request ids a callback may carry: issued ones and one never issued
RequestIds == 1..(MaxReq + 1)

(* ---- the confidential-value primitive ---- *)
NullHandle == << >>
asEuint32(v) == << v >>
toBytes32(h) == h

(* ---- payloads the oracle (or anybody else) may deliver ---- *)
\* a profile plaintext (income, assets, riskScore, goals), the plaintext
\* (productId, matchScore) of the recommendation computed from it, and a
\* payload too short to decode.  decryptRecommendation also decodes the first
\* two words of the four-word payload, so a reveal can carry two different
\* value pairs.
ProfilePayloads == { <<50000, 600000, 80, 1>> }
RevealPayloads == { <<3, 100>> }
ShortPayload == << >>
Payloads == ProfilePayloads \cup RevealPayloads \cup {ShortPayload}

\* a proof is the oracle's signature over the request id and the cleartexts
Sign(requestId, cleartexts) == [ requestId |-> requestId, cleartexts |-> cleartexts ]

\* proofs that may accompany (requestId, cleartexts): the oracle's signature
\* over them, and a signature over the same cleartexts taken from another
\* request
ProofsFor(requestId, cleartexts) ==
    { Sign(requestId, cleartexts),
      Sign((requestId % (MaxReq + 1)) + 1, cleartexts) }

(* ---- revert reasons ---- *)
Ok == "ok"
UnknownRequest == "Invalid request"
AlreadyRevealed == "Already decrypted"
InvalidProof == "InvalidProof"
MalformedPayload == "MalformedPayload"
\* arithmetic overflow
Panic == "Panic(0x11)"
\* named by the specification, raised nowhere in the contract
NotFound == "NotFound"

VARIABLES
    profileCount,               \* uint256 public profileCount
    recommendationCount,        \* uint256 public recommendationCount
    encryptedProfiles,          \* mapping(uint256 => EncryptedProfile)
    encryptedRecommendations,   \* mapping(uint256 => EncryptedRecommendation)
    decryptedResults,           \* mapping(uint256 => DecryptedResult)
    requestToProfileId,         \* mapping(uint256 => uint256), 0 when absent
    recommendationRequestToId,  \* mapping(uint256 => uint256), 0 when absent
    counterRequest,             \* the oracle's next request id
    resolved,                   \* ghost: request ids of accepted callbacks
    lastCall,                   \* ghost: the last call and its outcome
    data,                       \* frontend: the key-value store it reads and writes
    session,                    \* frontend: the state of each browser session
    handlers                    \* frontend: the running approve and reject handlers

storage == << profileCount, recommendationCount, encryptedProfiles,
              encryptedRecommendations, decryptedResults,
              requestToProfileId, recommendationRequestToId >>

\* the variables of the web frontend, which the contract never touches
frontend == << data, session, handlers >>

\* the contract's storage, the request counter of the FHE library and the ghosts
contract == << profileCount, recommendationCount, encryptedProfiles,
               encryptedRecommendations, decryptedResults,
               requestToProfileId, recommendationRequestToId,
               counterRequest, resolved, lastCall >>

vars == << contract, frontend >>

(* ---- storage defaults ---- *)
EncryptedProfile(id, inc, ass, risk, goals) ==
    [ profileId |-> id, encryptedIncome |-> inc, encryptedAssets |-> ass,
      encryptedRiskTolerance |-> risk, encryptedGoals |-> goals ]

\* nothing is stored under the new id
EncryptedRecommendationUnstored(id, pid, score, profile) ==
    [ recommendationId |-> 0, encryptedProductId |-> NullHandle,
      encryptedMatchScore |-> NullHandle, profileId |-> 0 ]

EncryptedRecommendation(id, pid, score, profile) ==
    [ recommendationId |-> id, encryptedProductId |-> pid,
      encryptedMatchScore |-> score, profileId |-> profile ]

DecryptedResult(pid, score, revealed) ==
    [ productId |-> pid, matchScore |-> score, isRevealed |-> revealed ]

ZeroProfile == EncryptedProfile(0, NullHandle, NullHandle, NullHandle, NullHandle)
ZeroRecommendation == EncryptedRecommendation(0, NullHandle, NullHandle, 0)
ZeroResult == DecryptedResult(0, 0, FALSE)

Event(name, args) == [ name |-> name, args |-> args ]

\* requestId is the request id of an accepted callback, 0 for any other call
Call(op, result, requestId, newId, events) ==
    [ op |-> op, result |-> result, requestId |-> requestId, newId |-> newId,
      events |-> events ]

(* ---- the web frontend (frontend/web/src/App.tsx) ---- *)
\* The frontend keeps its product catalogue in a key-value store that it
\* reads with getData(key) and writes with setData(key, bytes), each call one
\* transaction or one read.  A browser session runs submitProduct, which
\* awaits each of these calls in turn.
MaxSessions == 2
Sessions == 1..MaxSessions

\* the keys of the store: "product_keys" and "product_<id>"
ProductKeysKey == << "product_keys" >>
ProductKey(productId) == << "product", productId >>
DataKeys == { ProductKeysKey } \cup { ProductKey(id) : id \in Sessions }

\* bytes: the empty byte string, or the UTF-8 bytes of a JSON value
EmptyBytes == << >>
toUtf8Bytes(value) == << value >>
parse(bytes) == bytes[1]

IdleSession == [ pc |-> "idle", status |-> "none", keys |-> << >>,
                loadKeys |-> << >>, list |-> << >>, products |-> << >> ]

\* the calls of approveProduct and rejectProduct that the model follows
MaxHandlers == 2
Handlers == 1..MaxHandlers

IdleHandler == [ pc |-> "idle", status |-> "none", session |-> 0, productId |-> 0,
                decision |-> "none", productData |-> << >>,
                loadKeys |-> << >>, list |-> << >> ]

FrontendInit ==
    /\ data = [ k \in DataKeys |-> EmptyBytes ]
    /\ session = [ s \in Sessions |-> IdleSession ]
    /\ handlers = [ h \in Handlers |-> IdleHandler ]

Init ==
    /\ profileCount = 0
    /\ recommendationCount = 0
    /\ encryptedProfiles = [ i \in SubjectIds |-> ZeroProfile ]
    /\ encryptedRecommendations = [ i \in SubjectIds |-> ZeroRecommendation ]
    /\ decryptedResults = [ i \in SubjectIds |-> ZeroResult ]
    /\ requestToProfileId = [ r \in RequestIds |-> 0 ]
    /\ recommendationRequestToId = [ r \in RequestIds |-> 0 ]
    /\ counterRequest = 1
    /\ resolved = { }
    /\ lastCall = Call("constructor", Ok, 0, 0, << >>)
    /\ FrontendInit

(* ---- the recommendation engine ---- *)
\* the second rule is tried first
determineProductIdSwapped(income, assets, riskScore, goals) ==
    IF income > 100000 /\ goals = 2 THEN 2
    ELSE IF riskScore > 70 /\ assets > 500000 THEN 3
    ELSE 1

determineProductId(income, assets, riskScore, goals) ==
    IF riskScore > 70 /\ assets > 500000 THEN 3
    ELSE IF income > 100000 /\ goals = 2 THEN 2
    ELSE 1

\* uint32 arithmetic is checked (Solidity 0.8): an operation whose result does
\* not fit in 32 bits panics and the call reverts.  A uint32 is held as its
\* two 16-bit halves << high, low >>, the result of an operation that
\* overflowed as the empty sequence.
Half == 65536
Overflow == << >>
uint32(n) == << n \div Half, n % Half >>

checkedAdd(a, b) ==
    IF a = Overflow \/ b = Overflow THEN Overflow
    ELSE LET low == a[2] + b[2]
             high == a[1] + b[1] + (low \div Half)
         IN  IF high >= Half THEN Overflow ELSE << high, low % Half >>

\* k is a small constant
checkedMul(a, k) ==
    IF a = Overflow THEN Overflow
    ELSE LET low == a[2] * k
             high == (a[1] * k) + (low \div Half)
         IN  IF high >= Half THEN Overflow ELSE << high, low % Half >>

\* the sum of line 202, Overflow when one of its operations panics
matchScoreSum(income, assets, riskScore, goals) ==
    checkedAdd(checkedAdd(checkedAdd(uint32(income \div 10000), uint32(assets \div 100000)),
                          uint32(riskScore)),
               checkedMul(uint32(goals), 10))

\* the cap of 100 is applied only to sums of more than 16 bits
calculateMatchScoreUncapped(income, assets, riskScore, goals) ==
    LET score == matchScoreSum(income, assets, riskScore, goals)
    IN  IF score[1] > 0 THEN 100 ELSE score[2]

\* the score grows with the number of recommendations already stored
calculateMatchScoreStateful(income, assets, riskScore, goals) ==
    LET score == matchScoreSum(income, assets, riskScore, goals)
    IN  IF score[1] > 0 \/ score[2] + recommendationCount > 100 THEN 100
        ELSE score[2] + recommendationCount

\* defined when matchScoreSum does not overflow
calculateMatchScore(income, assets, riskScore, goals) ==
    LET score == matchScoreSum(income, assets, riskScore, goals)
    IN  IF score[1] > 0 \/ score[2] > 100 THEN 100 ELSE score[2]

(* ---- the oracle boundary ---- *)
checkSignatures(requestId, cleartexts, proof) ==
    /\ proof.requestId = requestId
    /\ proof.cleartexts = cleartexts

\* abi.decode(cleartexts, (uint32 x n)): needs n words, ignores the rest
abiDecodes(cleartexts, n) == Len(cleartexts) >= n

(* ---- access control ---- *)
\* msg.sender of a call: the client, who submits the profiles, or another party
Client == "client"
Callers == { Client, "other" }

\* modifier onlyClient: its body is the placeholder alone, it checks nothing
onlyClient(sender, id) == TRUE

(* ---- submitEncryptedProfile ---- *)
\* the counter is read without having been incremented
incrementedProfileCountStale == profileCount

incrementedProfileCount == profileCount + 1

\* the new profile is written over the first one
submitEncryptedProfileOverFirst(encryptedIncome, encryptedAssets, encryptedRiskTolerance, encryptedGoals) ==
    /\ profileCount < MaxProfiles
    /\ LET newProfileId == incrementedProfileCount
       IN  /\ profileCount' = incrementedProfileCount
           /\ encryptedProfiles' = [ encryptedProfiles EXCEPT ![1] =
                  EncryptedProfile(newProfileId, encryptedIncome, encryptedAssets,
                                   encryptedRiskTolerance, encryptedGoals) ]
           /\ lastCall' = Call("submitEncryptedProfile", Ok, 0, newProfileId,
                               << Event("ProfileSubmitted", <<newProfileId>>) >>)
    /\ UNCHANGED << recommendationCount, encryptedRecommendations, decryptedResults,
                    requestToProfileId, recommendationRequestToId, counterRequest,
                    resolved >>

submitEncryptedProfile(encryptedIncome, encryptedAssets, encryptedRiskTolerance, encryptedGoals) ==
    /\ profileCount < MaxProfiles
    /\ LET newProfileId == incrementedProfileCount
       IN  /\ profileCount' = incrementedProfileCount
           /\ encryptedProfiles' = [ encryptedProfiles EXCEPT ![newProfileId] =
                  EncryptedProfile(newProfileId, encryptedIncome, encryptedAssets,
                                   encryptedRiskTolerance, encryptedGoals) ]
           /\ lastCall' = Call("submitEncryptedProfile", Ok, 0, newProfileId,
                               << Event("ProfileSubmitted", <<newProfileId>>) >>)
    /\ UNCHANGED << recommendationCount, encryptedRecommendations, decryptedResults,
                    requestToProfileId, recommendationRequestToId, counterRequest,
                    resolved >>

(* ---- requestFinancialRecommendation ---- *)
requestFinancialRecommendation(profileId) ==
    /\ counterRequest <= MaxReq
    /\ LET profile == encryptedProfiles[profileId]
           ciphertexts == << toBytes32(profile.encryptedIncome),
                             toBytes32(profile.encryptedAssets),
                             toBytes32(profile.encryptedRiskTolerance),
                             toBytes32(profile.encryptedGoals) >>
           reqId == counterRequest
       IN  /\ counterRequest' = counterRequest + 1
           /\ requestToProfileId' = [ requestToProfileId EXCEPT ![reqId] = profileId ]
           /\ lastCall' = Call("requestFinancialRecommendation", Ok, 0,
                               reqId, << Event("RecommendationRequested", <<reqId, profileId>>) >>)
    /\ UNCHANGED << profileCount, recommendationCount, encryptedProfiles,
                    encryptedRecommendations, decryptedResults,
                    recommendationRequestToId, resolved >>

(* ---- generateRecommendation ---- *)
\* the arithmetic of calculateMatchScore panics on the decoded tuple
computePanics(cleartexts) ==
    matchScoreSum(cleartexts[1], cleartexts[2], cleartexts[3], cleartexts[4]) = Overflow

\* the signature check is left out
generateRecommendationRevertNoProof(requestId, cleartexts, proof) ==
    IF requestToProfileId[requestId] = 0 THEN UnknownRequest
    ELSE IF ~abiDecodes(cleartexts, 4) THEN MalformedPayload
    ELSE IF computePanics(cleartexts) THEN Panic
    ELSE Ok

\* the request lookup is left out
generateRecommendationRevertNoLookup(requestId, cleartexts, proof) ==
    IF ~checkSignatures(requestId, cleartexts, proof) THEN InvalidProof
    ELSE IF ~abiDecodes(cleartexts, 4) THEN MalformedPayload
    ELSE IF computePanics(cleartexts) THEN Panic
    ELSE Ok

\* neither the request lookup nor the signature check is made
generateRecommendationRevertNoChecks(requestId, cleartexts, proof) ==
    IF ~abiDecodes(cleartexts, 4) THEN MalformedPayload
    ELSE IF computePanics(cleartexts) THEN Panic
    ELSE Ok

generateRecommendationRevert(requestId, cleartexts, proof) ==
    IF requestToProfileId[requestId] = 0 THEN UnknownRequest
    ELSE IF ~checkSignatures(requestId, cleartexts, proof) THEN InvalidProof
    ELSE IF ~abiDecodes(cleartexts, 4) THEN MalformedPayload
    ELSE IF computePanics(cleartexts) THEN Panic
    ELSE Ok

\* the counter is read without having been incremented
incrementedRecommendationCountStale == recommendationCount

incrementedRecommendationCount == recommendationCount + 1

generateRecommendation(requestId, cleartexts, proof) ==
    LET result == generateRecommendationRevert(requestId, cleartexts, proof)
    IN  IF result = Ok
        THEN /\ recommendationCount < MaxRecs
             /\ LET profileId == requestToProfileId[requestId]
                    income == cleartexts[1]
                    assets == cleartexts[2]
                    riskScore == cleartexts[3]
                    goals == cleartexts[4]
                    newRecommendationId == incrementedRecommendationCount
                    productId == determineProductId(income, assets, riskScore, goals)
                    matchScore == calculateMatchScore(income, assets, riskScore, goals)
                IN  /\ recommendationCount' = newRecommendationId
                    /\ encryptedRecommendations' =
                          [ encryptedRecommendations EXCEPT ![newRecommendationId] =
                              EncryptedRecommendation(newRecommendationId, asEuint32(productId),
                                  asEuint32(matchScore), profileId) ]
                    /\ decryptedResults' = [ decryptedResults EXCEPT ![newRecommendationId] =
                              DecryptedResult(productId, matchScore, FALSE) ]
                    /\ resolved' = resolved \cup {requestId}
                    /\ lastCall' = Call("generateRecommendation",
                                        Ok, requestId, newRecommendationId,
                                        << Event("RecommendationGenerated", <<newRecommendationId>>) >>)
             /\ UNCHANGED << profileCount, encryptedProfiles, requestToProfileId,
                             recommendationRequestToId, counterRequest >>
        ELSE /\ lastCall' = Call("generateRecommendation",
                                 result, 0, 0, << >>)
             /\ UNCHANGED << storage, counterRequest, resolved >>

(* ---- requestRecommendationDecryption ---- *)
requestRecommendationDecryptionRevert(recommendationId) ==
    IF decryptedResults[recommendationId].isRevealed THEN AlreadyRevealed ELSE Ok

requestRecommendationDecryption(recommendationId) ==
    LET result == requestRecommendationDecryptionRevert(recommendationId)
    IN  IF result = Ok
        THEN /\ counterRequest <= MaxReq
             /\ LET rec == encryptedRecommendations[recommendationId]
                    ciphertexts == << toBytes32(rec.encryptedProductId),
                                      toBytes32(rec.encryptedMatchScore) >>
                    reqId == counterRequest
                IN  /\ counterRequest' = counterRequest + 1
                    /\ recommendationRequestToId' =
                          [ recommendationRequestToId EXCEPT ![reqId] = recommendationId ]
                    /\ lastCall' = Call("requestRecommendationDecryption",
                                        Ok, 0, reqId, << >>)
             /\ UNCHANGED << profileCount, recommendationCount, encryptedProfiles,
                             encryptedRecommendations, decryptedResults, requestToProfileId,
                             resolved >>
        ELSE /\ lastCall' = Call("requestRecommendationDecryption",
                                 result, 0, 0, << >>)
             /\ UNCHANGED << storage, counterRequest, resolved >>

(* ---- decryptRecommendation ---- *)
\* the request is looked up among the profile requests
decryptRecommendationRevertWrongMap(requestId, cleartexts, proof) ==
    IF requestToProfileId[requestId] = 0 THEN UnknownRequest
    ELSE IF decryptedResults[recommendationRequestToId[requestId]].isRevealed THEN AlreadyRevealed
    ELSE IF ~checkSignatures(requestId, cleartexts, proof) THEN InvalidProof
    ELSE IF ~abiDecodes(cleartexts, 2) THEN MalformedPayload
    ELSE Ok

decryptRecommendationRevert(requestId, cleartexts, proof) ==
    IF recommendationRequestToId[requestId] = 0 THEN UnknownRequest
    ELSE IF decryptedResults[recommendationRequestToId[requestId]].isRevealed THEN AlreadyRevealed
    ELSE IF ~checkSignatures(requestId, cleartexts, proof) THEN InvalidProof
    ELSE IF ~abiDecodes(cleartexts, 2) THEN MalformedPayload
    ELSE Ok

\* the two decoded values are stored in each other's field
decryptRecommendationSwapped(requestId, cleartexts, proof) ==
    LET result == decryptRecommendationRevert(requestId, cleartexts, proof)
    IN  IF result = Ok
        THEN /\ LET recommendationId == recommendationRequestToId[requestId]
                    productId == cleartexts[1]
                    matchScore == cleartexts[2]
                IN  /\ decryptedResults' = [ decryptedResults EXCEPT ![recommendationId] =
                              DecryptedResult(matchScore, productId, TRUE) ]
                    /\ resolved' = resolved \cup {requestId}
                    /\ lastCall' = Call("decryptRecommendation",
                                        Ok, requestId, recommendationId,
                                        << Event("ResultDecrypted", <<recommendationId>>) >>)
             /\ UNCHANGED << profileCount, recommendationCount, encryptedProfiles,
                             encryptedRecommendations, requestToProfileId,
                             recommendationRequestToId, counterRequest >>
        ELSE /\ lastCall' = Call("decryptRecommendation",
                                 result, 0, 0, << >>)
             /\ UNCHANGED << storage, counterRequest, resolved >>

decryptRecommendation(requestId, cleartexts, proof) ==
    LET result == decryptRecommendationRevert(requestId, cleartexts, proof)
    IN  IF result = Ok
        THEN /\ LET recommendationId == recommendationRequestToId[requestId]
                    productId == cleartexts[1]
                    matchScore == cleartexts[2]
                IN  /\ decryptedResults' = [ decryptedResults EXCEPT ![recommendationId] =
                              DecryptedResult(productId, matchScore, TRUE) ]
                    /\ resolved' = resolved \cup {requestId}
                    /\ lastCall' = Call("decryptRecommendation",
                                        Ok, requestId, recommendationId,
                                        << Event("ResultDecrypted", <<recommendationId>>) >>)
             /\ UNCHANGED << profileCount, recommendationCount, encryptedProfiles,
                             encryptedRecommendations, requestToProfileId,
                             recommendationRequestToId, counterRequest >>
        ELSE /\ lastCall' = Call("decryptRecommendation",
                                 result, 0, 0, << >>)
             /\ UNCHANGED << storage, counterRequest, resolved >>

(* ---- public reads ---- *)
\* view functions: they read the mapping entry, the storage default when the
\* id was never written, and never revert
getDecryptedResult(recommendationId) ==
    LET r == decryptedResults[recommendationId]
    IN  << r.productId, r.matchScore, r.isRevealed >>

\* getEncryptedProfile has no require: it returns for every id
getEncryptedProfileRevert(profileId) == Ok

getEncryptedProfile(profileId) ==
    LET p == encryptedProfiles[profileId]
    IN  << p.encryptedIncome, p.encryptedAssets, p.encryptedRiskTolerance, p.encryptedGoals >>

(* ---- callers ---- *)
SubmitProfile ==
    /\ \E p \in ProfilePayloads :
           submitEncryptedProfile(asEuint32(p[1]), asEuint32(p[2]), asEuint32(p[3]), asEuint32(p[4]))
    /\ UNCHANGED frontend

RequestRecommendation ==
    /\ \E sender \in Callers, id \in SubjectIds :
           onlyClient(sender, id) /\ requestFinancialRecommendation(id)
    /\ UNCHANGED frontend

ProfileCallback ==
    /\ \E r \in RequestIds, c \in Payloads :
           \E p \in ProofsFor(r, c) : generateRecommendation(r, c, p)
    /\ UNCHANGED frontend

RequestReveal ==
    /\ \E sender \in Callers, id \in SubjectIds :
           onlyClient(sender, id) /\ requestRecommendationDecryption(id)
    /\ UNCHANGED frontend

RevealCallback ==
    /\ \E r \in RequestIds, c \in Payloads :
           \E p \in ProofsFor(r, c) : decryptRecommendation(r, c, p)
    /\ UNCHANGED frontend

Next ==
    \/ SubmitProfile
    \/ RequestRecommendation
    \/ ProfileCallback
    \/ RequestReveal
    \/ RevealCallback

Spec == Init /\ [][Next]_vars

(***************************************************************************)
(* The recommendation engine on its own: one profile, whose plaintext is   *)
(* drawn from ComputeInputs, a client that requests recommendations and    *)
(* reveals for what exists, and an oracle that delivers the decryption of  *)
(* the handles it was asked for, with its signature.                       *)
(***************************************************************************)
\* values at and around the thresholds of determineProductId, the cap of
\* calculateMatchScore and the limit of uint32 arithmetic
ComputeInputs ==
    { 0, 10000, 50000, 100000, 100001, 150000 } \X
    { 0, 1000, 10000, 500000, 500001, 600000 } \X
    { 0, 5, 10, 70, 71, 80, 2147483647 } \X
    { 0, 1, 2, 429496729, 429496730, 2147483647 }

\* the oracle's decryption of a handle
decrypt(h) == h[1]

profilePlaintext(profileId) ==
    LET profile == encryptedProfiles[profileId]
    IN  << decrypt(profile.encryptedIncome), decrypt(profile.encryptedAssets),
           decrypt(profile.encryptedRiskTolerance), decrypt(profile.encryptedGoals) >>

recommendationPlaintext(recommendationId) ==
    LET rec == encryptedRecommendations[recommendationId]
    IN  << decrypt(rec.encryptedProductId), decrypt(rec.encryptedMatchScore) >>

\* the state after submitEncryptedProfile of the drawn plaintext
InitWithProfile(c) ==
        /\ profileCount = 1
        /\ recommendationCount = 0
        /\ encryptedProfiles = [ i \in SubjectIds |->
               IF i = 1
               THEN EncryptedProfile(1, asEuint32(c[1]), asEuint32(c[2]),
                                     asEuint32(c[3]), asEuint32(c[4]))
               ELSE ZeroProfile ]
        /\ encryptedRecommendations = [ i \in SubjectIds |-> ZeroRecommendation ]
        /\ decryptedResults = [ i \in SubjectIds |-> ZeroResult ]
        /\ requestToProfileId = [ r \in RequestIds |-> 0 ]
        /\ recommendationRequestToId = [ r \in RequestIds |-> 0 ]
        /\ counterRequest = 1
        /\ resolved = { }
        /\ lastCall = Call("submitEncryptedProfile", Ok, 0, 1,
                           << Event("ProfileSubmitted", <<1>>) >>)
        /\ FrontendInit

InitCompute == \E c \in ComputeInputs : InitWithProfile(c)

ComputeRequest ==
    /\ \E id \in 1..profileCount :
           onlyClient(Client, id) /\ requestFinancialRecommendation(id)
    /\ UNCHANGED frontend

OracleProfileCallback ==
    /\ \E r \in RequestIds :
           /\ requestToProfileId[r] \in 1..profileCount
           /\ LET c == profilePlaintext(requestToProfileId[r])
              IN  generateRecommendation(r, c, Sign(r, c))
    /\ UNCHANGED frontend

ComputeRevealRequest ==
    /\ \E id \in 1..recommendationCount :
           onlyClient(Client, id) /\ requestRecommendationDecryption(id)
    /\ UNCHANGED frontend

OracleRevealCallback ==
    /\ \E r \in RequestIds :
           /\ recommendationRequestToId[r] \in 1..recommendationCount
           /\ LET c == recommendationPlaintext(recommendationRequestToId[r])
              IN  decryptRecommendation(r, c, Sign(r, c))
    /\ UNCHANGED frontend

NextCompute ==
    \/ ComputeRequest
    \/ OracleProfileCallback
    \/ ComputeRevealRequest
    \/ OracleRevealCallback

SpecCompute == InitCompute /\ [][NextCompute]_vars

(***************************************************************************)
(* The two-cycle workflow under a fair oracle: the setting of SpecCompute, *)
(* with an oracle that delivers the callback of every request it issued,   *)
(* once, as long as the contract has not accepted it.                      *)
(***************************************************************************)
DeliverProfileDecryption(r) ==
    /\ r \notin resolved
    /\ requestToProfileId[r] \in 1..profileCount
    /\ LET c == profilePlaintext(requestToProfileId[r])
       IN  generateRecommendation(r, c, Sign(r, c))
    /\ UNCHANGED frontend

DeliverRecommendationDecryption(r) ==
    /\ r \notin resolved
    /\ recommendationRequestToId[r] \in 1..recommendationCount
    /\ LET c == recommendationPlaintext(recommendationRequestToId[r])
       IN  decryptRecommendation(r, c, Sign(r, c))
    /\ UNCHANGED frontend

OracleDeliversProfile == \E r \in RequestIds : DeliverProfileDecryption(r)

OracleDeliversReveal == \E r \in RequestIds : DeliverRecommendationDecryption(r)

NextLive ==
    \/ ComputeRequest
    \/ ComputeRevealRequest
    \/ OracleDeliversProfile
    \/ OracleDeliversReveal

\* the oracle eventually delivers the callback of every request
OracleFair ==
    \A r \in RequestIds :
        /\ WF_vars(DeliverProfileDecryption(r))
        /\ WF_vars(DeliverRecommendationDecryption(r))

\* profile plaintexts on which the score is below the cap, above it, and
\* beyond the limit of uint32 arithmetic
LiveInputs ==
    { 0, 10000, 50000, 100000, 100001, 150000 } \X
    { 1000, 600000 } \X
    { 5, 80 } \X
    { 0, 1, 2, 429496730 }

InitLive == \E c \in LiveInputs : InitWithProfile(c)

SpecLive == InitLive /\ [][NextLive]_vars /\ OracleFair

(***************************************************************************)
(* Properties                                                              *)
(***************************************************************************)
Issued(r) == r < counterRequest

\* a request is live while a callback that carries it with a genuine proof
\* and a well-formed payload would be accepted
LiveProfileRequest(r) == requestToProfileId[r] # 0

LiveRevealRequest(r) ==
    /\ recommendationRequestToId[r] # 0
    /\ ~decryptedResults[recommendationRequestToId[r]].isRevealed

Callbacks == { "generateRecommendation", "decryptRecommendation" }

\* C1: once a generateRecommendation callback carrying request id r has been
\* accepted, no later callback carrying r is accepted, and so no second
\* Recommendation is created for r.
C1_ProfileCallbackAcceptedOnce ==
    [][ (lastCall'.op = "generateRecommendation" /\ lastCall'.result = Ok) =>
            lastCall'.requestId \notin resolved ]_vars

\* C2: once a decryptRecommendation callback carrying request id r has been
\* accepted, no later callback carrying r is accepted and the RevealedResult
\* of r's recommendation keeps the values of the first reveal.
C2_RevealCallbackAcceptedOnce ==
    [][ /\ (lastCall'.op = "decryptRecommendation" /\ lastCall'.result = Ok) =>
               lastCall'.requestId \notin resolved
        /\ \A r \in resolved :
               recommendationRequestToId[r] # 0 =>
                   decryptedResults'[recommendationRequestToId[r]] =
                       decryptedResults[recommendationRequestToId[r]] ]_vars

\* C3: in every reachable state a callback for a live request whose proof
\* fails verification is rejected with InvalidProof, whatever its payload;
\* and a callback rejected with InvalidProof changes nothing in storage (no
\* Recommendation created, no reveal performed, the request still live).
C3_InvalidProofRejected ==
    /\ [](\A r \in RequestIds, c \in Payloads : \A p \in ProofsFor(r, c) :
            ~checkSignatures(r, c, p) =>
                /\ LiveProfileRequest(r) =>
                       generateRecommendationRevert(r, c, p) = InvalidProof
                /\ LiveRevealRequest(r) =>
                       decryptRecommendationRevert(r, c, p) = InvalidProof)
    /\ [][ (lastCall'.op \in Callbacks /\ lastCall'.result = InvalidProof) =>
               /\ UNCHANGED << storage, counterRequest >>
               /\ \A r \in RequestIds :
                      /\ LiveProfileRequest(r) => LiveProfileRequest(r)'
                      /\ LiveRevealRequest(r) => LiveRevealRequest(r)' ]_vars

\* C3 witness: a reveal callback has just been rejected for its proof while a
\* reveal request is live and a recommendation exists.
C3_Witness ==
    /\ lastCall.op = "decryptRecommendation"
    /\ lastCall.result = InvalidProof
    /\ recommendationCount >= 1
    /\ \E r \in RequestIds : LiveRevealRequest(r)

\* C4: in every reachable state a callback carrying a request id that no
\* request ever issued is rejected by generateRecommendation and by
\* decryptRecommendation, whatever its payload and proof; and a callback
\* rejected as unknown changes nothing in storage or in the request counter.
C4_UnsolicitedCallbackRejected ==
    /\ [](\A r \in RequestIds, c \in Payloads : \A p \in ProofsFor(r, c) :
            ~Issued(r) =>
                /\ generateRecommendationRevert(r, c, p) = UnknownRequest
                /\ decryptRecommendationRevert(r, c, p) = UnknownRequest)
    /\ [][ (lastCall'.op \in Callbacks /\ lastCall'.result = UnknownRequest) =>
               UNCHANGED << storage, counterRequest >> ]_vars

\* C4 witness: requests of both kinds have been issued and are all live, and a
\* profile callback has just been rejected as unknown: it carried an id that
\* was never issued to generateRecommendation.
C4_Witness ==
    /\ lastCall.op = "generateRecommendation"
    /\ lastCall.result = UnknownRequest
    /\ counterRequest > 2
    /\ \E r \in RequestIds : Issued(r) /\ LiveProfileRequest(r)
    /\ \E r \in RequestIds : Issued(r) /\ LiveRevealRequest(r)

\* C5: isRevealed is monotonic: for every recommendation id, a step never
\* takes decryptedResults[id].isRevealed from true back to false.
C5_IsRevealedMonotonic ==
    [][ \A id \in SubjectIds :
            decryptedResults[id].isRevealed => decryptedResults'[id].isRevealed ]_vars

\* the reveal transition has already happened for id
EverRevealed(id) ==
    \E r \in resolved : recommendationRequestToId[r] = id

\* C6: once a recommendation id is revealed, every
\* requestRecommendationDecryption for it fails with AlreadyRevealed without
\* issuing an oracle request or recording a pending one, and the
\* false-to-true transition of isRevealed happens at most once per id.
C6_RevealAtMostOnce ==
    [][ \A id \in SubjectIds :
            /\ (decryptedResults[id].isRevealed /\ requestRecommendationDecryption(id)) =>
                   /\ lastCall'.result = AlreadyRevealed
                   /\ UNCHANGED << counterRequest, recommendationRequestToId >>
            /\ (~decryptedResults[id].isRevealed /\ decryptedResults'[id].isRevealed) =>
                   ~EverRevealed(id) ]_vars

\* C7: every stored Recommendation references a profile that has been
\* submitted: its profileId lies in 1..profileCount.
C7_ReferentialIntegrity ==
    \A id \in 1..recommendationCount :
        /\ encryptedRecommendations[id].profileId >= 1
        /\ encryptedRecommendations[id].profileId <= profileCount

\* C8: at most one live request per subject and kind: no two different
\* request ids are live for the same profile, nor for the same recommendation.
C8_OneLiveRequestPerSubject ==
    \A r1, r2 \in RequestIds :
        r1 # r2 =>
            /\ (LiveProfileRequest(r1) /\ LiveProfileRequest(r2)) =>
                   requestToProfileId[r1] # requestToProfileId[r2]
            /\ (LiveRevealRequest(r1) /\ LiveRevealRequest(r2)) =>
                   recommendationRequestToId[r1] # recommendationRequestToId[r2]

\* C9: a decryption request that names a subject that does not exist (id 0
\* or an id above the counter) fails with NotFound, issues no oracle request
\* and records no pending request.
C9_RequestForMissingSubjectFails ==
    [][ \A id \in SubjectIds :
            /\ ((id = 0 \/ id > profileCount) /\ requestFinancialRecommendation(id)) =>
                   /\ lastCall'.result = NotFound
                   /\ UNCHANGED << counterRequest, requestToProfileId >>
            /\ ((id = 0 \/ id > recommendationCount) /\ requestRecommendationDecryption(id)) =>
                   /\ lastCall'.result = NotFound
                   /\ UNCHANGED << counterRequest, recommendationRequestToId >> ]_vars

\* C10: every submitEncryptedProfile assigns the id profileCount + 1, so the
\* ids are 1, 2, ... in order of submission and none is assigned twice; no
\* other operation changes profileCount, which never decreases.
C10_ProfileIdsStrictlyIncreasing ==
    [][ /\ profileCount' >= profileCount
        /\ lastCall'.op = "submitEncryptedProfile" =>
               /\ lastCall'.newId = profileCount + 1
               /\ profileCount' = profileCount + 1
               /\ encryptedProfiles'[lastCall'.newId].profileId = lastCall'.newId
               /\ \A id \in SubjectIds \ {lastCall'.newId} :
                      encryptedProfiles'[id] = encryptedProfiles[id]
        /\ lastCall'.op # "submitEncryptedProfile" => profileCount' = profileCount ]_vars

\* C10 witness: the second profile has just been submitted, after requests
\* were issued and a recommendation was generated in between.
C10_Witness ==
    /\ lastCall.op = "submitEncryptedProfile"
    /\ lastCall.newId = 2
    /\ profileCount = 2
    /\ encryptedProfiles[1].profileId = 1
    /\ encryptedProfiles[2].profileId = 2
    /\ counterRequest > 1
    /\ recommendationCount >= 1

\* C11: a Recommendation is created only by an accepted generateRecommendation
\* callback: in every reachable state generateRecommendation accepts only a
\* request id that requestFinancialRecommendation issued and a proof that
\* verifies; every step that changes recommendationCount or a stored
\* Recommendation is such an accepted callback and raises the counter by one;
\* the other four operations leave recommendationCount and every stored
\* Recommendation unchanged.
C11_RecommendationOnlyFromProfileCallback ==
    /\ [](\A r \in RequestIds, c \in Payloads : \A p \in ProofsFor(r, c) :
            generateRecommendationRevert(r, c, p) = Ok =>
                /\ Issued(r)
                /\ requestToProfileId[r] # 0
                /\ checkSignatures(r, c, p))
    /\ [][ /\ (\/ recommendationCount' # recommendationCount
               \/ encryptedRecommendations' # encryptedRecommendations) =>
                  /\ lastCall'.op = "generateRecommendation"
                  /\ lastCall'.result = Ok
                  /\ Issued(lastCall'.requestId)
                  /\ requestToProfileId[lastCall'.requestId] # 0
                  /\ recommendationCount' = recommendationCount + 1
           /\ lastCall'.op \in { "submitEncryptedProfile", "requestFinancialRecommendation",
                                 "requestRecommendationDecryption", "decryptRecommendation" } =>
                  UNCHANGED << recommendationCount, encryptedRecommendations >> ]_vars

\* C11 witness: the second recommendation has just been created by an
\* accepted callback, after a reveal callback was accepted as well.
C11_Witness ==
    /\ lastCall.op = "generateRecommendation"
    /\ lastCall.result = Ok
    /\ recommendationCount = 2
    /\ profileCount >= 1
    /\ \E r \in resolved : recommendationRequestToId[r] # 0

\* C12: while a recommendation is not revealed, the public read
\* getDecryptedResult shows nothing of its plaintext: the productId and the
\* matchScore it returns are the same (zero) whatever profile plaintext the
\* recommendation was computed from, so two runs that differ only in that
\* plaintext are indistinguishable until the reveal.
C12_UnrevealedResultNotObservable ==
    \A id \in SubjectIds :
        ~getDecryptedResult(id)[3] =>
            /\ getDecryptedResult(id)[1] = 0
            /\ getDecryptedResult(id)[2] = 0

\* C13: the two request operations are access-controlled: a call of
\* requestFinancialRecommendation or requestRecommendationDecryption made by
\* a party other than the client is rejected, issues no oracle request and
\* records no pending request.  Stated for the profiles and recommendations
\* that exist.
C13_RequestsOnlyByClient ==
    [][ \A sender \in Callers \ {Client}, id \in SubjectIds :
            /\ (/\ id \in 1..profileCount
                /\ onlyClient(sender, id)
                /\ requestFinancialRecommendation(id)) =>
                   /\ lastCall'.result # Ok
                   /\ UNCHANGED << counterRequest, requestToProfileId >>
            /\ (/\ id \in 1..recommendationCount
                /\ onlyClient(sender, id)
                /\ requestRecommendationDecryption(id)) =>
                   /\ lastCall'.result # Ok
                   /\ UNCHANGED << counterRequest, recommendationRequestToId >> ]_vars

\* C14: the productId stored for a recommendation follows the rule on the
\* plaintext of the profile it was computed from: 3 if riskScore > 70 and
\* assets > 500000; otherwise 2 if income > 100000 and goals = 2; otherwise 1.
\* The handle and the stored result carry the same value, always in {1,2,3}.
C14_ProductIdRule ==
    \A id \in 1..recommendationCount :
        LET c == profilePlaintext(encryptedRecommendations[id].profileId)
            income == c[1]
            assets == c[2]
            riskScore == c[3]
            goals == c[4]
            first == riskScore > 70 /\ assets > 500000
            second == income > 100000 /\ goals = 2
            stored == recommendationPlaintext(id)[1]
        IN  /\ first => stored = 3
            /\ (~first /\ second) => stored = 2
            /\ (~first /\ ~second) => stored = 1
            /\ stored \in {1, 2, 3}
            /\ decryptedResults[id].productId = stored

\* C14 witness: a recommendation is stored for a profile that satisfies both
\* rules, and the first rule won.
C14_Witness ==
    /\ recommendationCount >= 1
    /\ LET c == profilePlaintext(encryptedRecommendations[1].profileId)
       IN  /\ c[3] > 70 /\ c[2] > 500000
           /\ c[1] > 100000 /\ c[4] = 2
    /\ decryptedResults[1].productId = 3

\* C15: the matchScore stored for a recommendation is
\* min(100, income/10000 + assets/100000 + riskScore + goals*10) with floor
\* division, for the plaintext of the profile it was computed from: never
\* above 100, and the sum itself when the sum is at most 100.  (A term above
\* 100 alone puts the sum above 100.)
C15_MatchScoreRule ==
    \A id \in 1..recommendationCount :
        LET c == profilePlaintext(encryptedRecommendations[id].profileId)
            income == c[1]
            assets == c[2]
            riskScore == c[3]
            goals == c[4]
            stored == recommendationPlaintext(id)[2]
        IN  /\ stored <= 100
            /\ IF riskScore > 100 \/ goals > 10
               THEN stored = 100
               ELSE LET sum == (income \div 10000) + (assets \div 100000)
                                   + riskScore + (goals * 10)
                    IN  stored = IF sum > 100 THEN 100 ELSE sum
            /\ decryptedResults[id].matchScore = stored

\* C15 witness: a recommendation is stored whose sum is 101, one above the
\* cap.
C15_Witness ==
    /\ recommendationCount >= 1
    /\ profilePlaintext(encryptedRecommendations[1].profileId) = <<50000, 600000, 80, 1>>
    /\ decryptedResults[1].matchScore = 100

\* C16: compute is total: a callback that is valid in everything else (live
\* request, genuine proof, four-word payload) is accepted whatever the four
\* values are.
C16_ComputeTotal ==
    lastCall.op = "generateRecommendation" => lastCall.result = Ok

\* C17: compute is deterministic and independent of the stored state: any two
\* recommendations computed from the same plaintext tuple carry the same
\* productId and matchScore, whatever ran before or between the two callbacks.
C17_ComputeDeterministic ==
    \A id1, id2 \in 1..recommendationCount :
        (profilePlaintext(encryptedRecommendations[id1].profileId) =
             profilePlaintext(encryptedRecommendations[id2].profileId)) =>
            /\ recommendationPlaintext(id1) = recommendationPlaintext(id2)
            /\ decryptedResults[id1].productId = decryptedResults[id2].productId
            /\ decryptedResults[id1].matchScore = decryptedResults[id2].matchScore

\* C17 witness: two recommendations computed from one tuple whose score is
\* below the cap, with a request and a reveal of the first in between.
C17_Witness ==
    /\ recommendationCount = 2
    /\ decryptedResults[1].isRevealed
    /\ ~decryptedResults[2].isRevealed
    /\ decryptedResults[2].matchScore < 100
    /\ lastCall.op = "generateRecommendation"
    /\ lastCall.result = Ok

\* C18: pending requests for different subjects do not interfere: when a
\* callback for request r1 is accepted, every other pending request r2 whose
\* subject is not the subject of r1 stays pending for the same subject, and
\* the records of that subject (the profile of a profile request, the
\* Recommendation and the result of a reveal request) are unchanged; each
\* subject therefore ends with the same records whichever callback comes
\* first.
C18_CallbacksDoNotInterfere ==
    [][ \A r2 \in RequestIds :
            LET r1 == lastCall'.requestId
                profile2 == requestToProfileId[r2]
                rec2 == recommendationRequestToId[r2]
            IN  (lastCall'.op \in Callbacks /\ lastCall'.result = Ok /\ r2 # r1) =>
                    /\ (/\ LiveProfileRequest(r2)
                        /\ (lastCall'.op = "generateRecommendation" =>
                                profile2 # requestToProfileId[r1])) =>
                           /\ LiveProfileRequest(r2)'
                           /\ requestToProfileId'[r2] = profile2
                           /\ encryptedProfiles'[profile2] = encryptedProfiles[profile2]
                    /\ (/\ LiveRevealRequest(r2)
                        /\ (lastCall'.op = "decryptRecommendation" =>
                                rec2 # recommendationRequestToId[r1])) =>
                           /\ LiveRevealRequest(r2)'
                           /\ recommendationRequestToId'[r2] = rec2
                           /\ encryptedRecommendations'[rec2] = encryptedRecommendations[rec2]
                           /\ decryptedResults'[rec2] = decryptedResults[rec2] ]_vars

\* C19: a rejected call is all-or-nothing: a step whose call was rejected
\* (a callback with a verified proof and a payload that does not decode
\* included) leaves the whole storage and the oracle's request counter as
\* they were; a callback whose proof verifies and whose payload is too short
\* is rejected with MalformedPayload; and in every reachable state each id up
\* to recommendationCount has its Recommendation and its result stored.
C19_RejectedCallChangesNothing ==
    /\ [](/\ \A id \in 1..recommendationCount :
                /\ encryptedRecommendations[id].recommendationId = id
                /\ encryptedRecommendations[id].encryptedProductId # NullHandle
                /\ encryptedRecommendations[id].encryptedMatchScore # NullHandle
                /\ decryptedResults[id] # ZeroResult
          /\ \A r \in RequestIds :
                /\ LiveProfileRequest(r) =>
                       generateRecommendationRevert(r, ShortPayload, Sign(r, ShortPayload))
                           = MalformedPayload
                /\ LiveRevealRequest(r) =>
                       decryptRecommendationRevert(r, ShortPayload, Sign(r, ShortPayload))
                           = MalformedPayload)
    /\ [][ lastCall'.result # Ok =>
               /\ UNCHANGED << storage, counterRequest >>
               /\ lastCall'.events = << >> ]_vars

\* C19 witness: with a recommendation stored and a reveal request pending, a
\* profile callback has just been rejected for its payload.
C19_Witness ==
    /\ lastCall.op = "generateRecommendation"
    /\ lastCall.result = MalformedPayload
    /\ recommendationCount >= 1
    /\ \E r \in RequestIds : LiveRevealRequest(r)

\* C20: reading a profile fails with NotFound when the id is 0 or above
\* profileCount; getEncryptedProfile returns a record only for ids in
\* 1..profileCount.
C20_ReadOfMissingProfileFails ==
    \A id \in SubjectIds :
        (id = 0 \/ id > profileCount) =>
            getEncryptedProfileRevert(id) = NotFound

RequestOps == { "requestFinancialRecommendation", "requestRecommendationDecryption" }

\* C21: every successful decryption request, of either kind, emits exactly
\* one event that carries the request id the oracle issued and the subject
\* id; a rejected request emits none.  Stated for requests whose subject
\* exists.
C21_RequestEmitsOneEvent ==
    [][ lastCall'.op \in RequestOps =>
            LET profileId == requestToProfileId'[lastCall'.newId]
                recommendationId == recommendationRequestToId'[lastCall'.newId]
            IN  IF lastCall'.result = Ok
                THEN /\ (/\ lastCall'.op = "requestFinancialRecommendation"
                         /\ profileId \in 1..profileCount) =>
                            /\ Len(lastCall'.events) = 1
                            /\ lastCall'.events[1].args = << lastCall'.newId, profileId >>
                     /\ (/\ lastCall'.op = "requestRecommendationDecryption"
                         /\ recommendationId \in 1..recommendationCount) =>
                            /\ Len(lastCall'.events) = 1
                            /\ lastCall'.events[1].args = << lastCall'.newId, recommendationId >>
                ELSE lastCall'.events = << >> ]_vars

\* C22: a stored profile is immutable: for every id up to profileCount no
\* step, whatever the operation and whether it is accepted or rejected,
\* changes any field of encryptedProfiles[id].
C22_ProfileImmutable ==
    [][ \A id \in 1..profileCount :
            encryptedProfiles'[id] = encryptedProfiles[id] ]_vars

\* C22 witness: both profiles are stored, a recommendation has been generated
\* and revealed, and a callback has just been rejected.
C22_Witness ==
    /\ profileCount = 2
    /\ recommendationCount >= 1
    /\ \E id \in 1..recommendationCount : decryptedResults[id].isRevealed
    /\ lastCall.op \in Callbacks
    /\ lastCall.result # Ok
    /\ encryptedProfiles[1] # ZeroProfile
    /\ encryptedProfiles[2] # ZeroProfile

\* C23: the reveal callback checks the proof before the AlreadyRevealed
\* guard: in every reachable state a decryptRecommendation callback that
\* carries a known request id (one recorded for an existing recommendation)
\* and a proof that does not verify is rejected with InvalidProof, whether
\* or not the recommendation is already revealed, so AlreadyRevealed is
\* reported only to callbacks whose proof verified.
C23_ProofCheckedBeforeRevealedGuard ==
    \A r \in RequestIds, c \in Payloads : \A p \in ProofsFor(r, c) :
        (/\ recommendationRequestToId[r] \in 1..recommendationCount
         /\ ~checkSignatures(r, c, p)) =>
            decryptRecommendationRevert(r, c, p) = InvalidProof

\* the events of a call that carry the given name and recommendation id
Emitted(call, name, id) ==
    { i \in 1..Len(call.events) :
          call.events[i].name = name /\ call.events[i].args = <<id>> }

\* C24: ResultDecrypted(id) is emitted at most once for every recommendation
\* id: a step that emits it emits it once and no earlier reveal callback was
\* accepted for id.  RecommendationGenerated(id) is emitted exactly once for
\* each id in 1..recommendationCount: a step emits it, once, exactly when it
\* raises recommendationCount to id, and the counter moves in no other way.
C24_EventsOncePerRecommendation ==
    [][ \A id \in SubjectIds :
            /\ Emitted(lastCall', "ResultDecrypted", id) # { } =>
                   /\ Cardinality(Emitted(lastCall', "ResultDecrypted", id)) = 1
                   /\ ~EverRevealed(id)
            /\ Cardinality(Emitted(lastCall', "RecommendationGenerated", id)) =
                   (IF recommendationCount' = id /\ recommendationCount = id - 1
                    THEN 1 ELSE 0)
            /\ recommendationCount' \in { recommendationCount, recommendationCount + 1 } ]_vars

\* C25: under a fair oracle every profile for which a recommendation request
\* was issued eventually has a Recommendation that references it, and every
\* existing recommendation for which a reveal request was issued is
\* eventually revealed.
C25_WorkflowLive ==
    \A r \in RequestIds :
        /\ (requestToProfileId[r] \in 1..profileCount) ~>
               (\E id \in 1..recommendationCount :
                    encryptedRecommendations[id].profileId = requestToProfileId[r])
        /\ (recommendationRequestToId[r] \in 1..recommendationCount) ~>
               decryptedResults[recommendationRequestToId[r]].isRevealed

\* C26: recommendation ids are unique, dense and monotonic: in every
\* reachable state the stored Recommendations are exactly those under the
\* keys 1..recommendationCount, each with recommendationId equal to its key;
\* recommendationCount never decreases; an accepted generateRecommendation
\* assigns the id recommendationCount + 1; and a stored Recommendation is
\* never written again.
C26_RecommendationIdsDense ==
    /\ [](\A id \in SubjectIds :
            IF id \in 1..recommendationCount
            THEN encryptedRecommendations[id].recommendationId = id
            ELSE encryptedRecommendations[id] = ZeroRecommendation)
    /\ [][ /\ recommendationCount' >= recommendationCount
           /\ (lastCall'.op = "generateRecommendation" /\ lastCall'.result = Ok) =>
                  /\ lastCall'.newId = recommendationCount + 1
                  /\ recommendationCount' = recommendationCount + 1
                  /\ encryptedRecommendations'[lastCall'.newId].recommendationId =
                         lastCall'.newId
           /\ \A id \in 1..recommendationCount :
                  encryptedRecommendations'[id] = encryptedRecommendations[id] ]_vars

\* C26 witness: the second recommendation has just been stored under id 2,
\* after the first one was revealed.
C26_Witness ==
    /\ lastCall.op = "generateRecommendation"
    /\ lastCall.result = Ok
    /\ lastCall.newId = 2
    /\ recommendationCount = 2
    /\ encryptedRecommendations[1].recommendationId = 1
    /\ encryptedRecommendations[2].recommendationId = 2
    /\ decryptedResults[1].isRevealed

\* C27: a reveal targets an existing recommendation only: in every reachable
\* state a result marked revealed belongs to an id in 1..recommendationCount.
C27_RevealedImpliesExists ==
    \A id \in SubjectIds :
        decryptedResults[id].isRevealed => (1 <= id /\ id <= recommendationCount)

C29_RevealRoundTrip ==
    /\ [](\A id \in 1..recommendationCount :
            decryptedResults[id].isRevealed =>
                LET c == profilePlaintext(encryptedRecommendations[id].profileId)
                IN  /\ decryptedResults[id].productId =
                           determineProductId(c[1], c[2], c[3], c[4])
                    /\ decryptedResults[id].matchScore =
                           calculateMatchScore(c[1], c[2], c[3], c[4]))
    /\ [][ (lastCall'.op = "decryptRecommendation" /\ lastCall'.result = Ok) =>
               /\ decryptedResults' =
                      [ decryptedResults EXCEPT ![lastCall'.newId].isRevealed = TRUE ]
               /\ ~decryptedResults[lastCall'.newId].isRevealed
               /\ UNCHANGED << profileCount, recommendationCount, encryptedProfiles,
                               encryptedRecommendations, requestToProfileId,
                               recommendationRequestToId >> ]_vars

\* C29 witness: the recommendation computed from (150000, 10000, 10, 2) has
\* just been revealed as product 2 with score 45.
C29_Witness ==
    /\ lastCall.op = "decryptRecommendation"
    /\ lastCall.result = Ok
    /\ lastCall.newId = 1
    /\ profilePlaintext(encryptedRecommendations[1].profileId) = <<150000, 10000, 10, 2>>
    /\ decryptedResults[1] = DecryptedResult(2, 45, TRUE)

(* ================================================================== *)
(* The web frontend: submitProduct and loadProducts of App.tsx         *)
(* ================================================================== *)
\* Each browser session runs submitProduct once; the product id it draws
\* from Date.now() and Math.random() is unique, so the session's number
\* stands for it.  Every await of the handler is a point where another
\* session's call can take effect, so each awaited call is one step.
Timestamps == { 1, 2 }

ProductData(t, owner) == [ timestamp |-> t, owner |-> owner, status |-> "pending" ]

\* getData(key): the bytes stored under the key, empty if never written
getData(key) == data[key]

\* setData(key, bytes): writes the bytes under the key and nothing else
setData(key, bytes) == data' = [ data EXCEPT ![key] = bytes ]

\* let keys = []; if (keysBytes.length > 0) keys = JSON.parse(toUtf8String(keysBytes))
parseKeys(keysBytes) == IF Len(keysBytes) > 0 THEN parse(keysBytes) ELSE << >>

\* list.sort((a, b) => b.timestamp - a.timestamp): stable, newest first
RECURSIVE insertByTimestamp(_, _)
insertByTimestamp(sorted, p) ==
    IF sorted = << >> THEN << p >>
    ELSE IF Head(sorted).timestamp >= p.timestamp
         THEN << Head(sorted) >> \o insertByTimestamp(Tail(sorted), p)
         ELSE << p >> \o sorted

RECURSIVE sortByTimestampDesc(_)
sortByTimestampDesc(list) ==
    IF list = << >> THEN << >>
    ELSE insertByTimestamp(sortByTimestampDesc(SubSeq(list, 1, Len(list) - 1)),
                           list[Len(list)])

\* the catch block of submitProduct: the run ends with status "error"
submitFailed(s) ==
    /\ session' = [ session EXCEPT ![s].pc = "done", ![s].status = "error" ]
    /\ UNCHANGED data

\* submitProduct up to its first write: await contract.setData(`product_${productId}`, ...)
submitProductStore(s) ==
    /\ session[s].pc = "idle"
    /\ \/ \E t \in Timestamps :
             /\ setData(ProductKey(s), toUtf8Bytes(ProductData(t, s)))
             /\ session' = [ session EXCEPT ![s].pc = "getKeys", ![s].status = "pending" ]
       \/ submitFailed(s)
    /\ UNCHANGED << contract, handlers >>

\* const keysBytes = await contract.getData("product_keys"), parsed into keys
submitProductReadKeys(s) ==
    /\ session[s].pc = "getKeys"
    /\ \/ /\ session' = [ session EXCEPT ![s].pc = "setKeys",
                                         ![s].keys = parseKeys(getData(ProductKeysKey)) ]
          /\ UNCHANGED data
       \/ submitFailed(s)
    /\ UNCHANGED << contract, handlers >>

\* keys.push(productId); await contract.setData("product_keys", ...); status "success"
submitProductWriteKeys(s) ==
    /\ session[s].pc = "setKeys"
    /\ \/ /\ setData(ProductKeysKey, toUtf8Bytes(Append(session[s].keys, s)))
          /\ session' = [ session EXCEPT ![s].pc = "loadKeys", ![s].status = "success" ]
       \/ submitFailed(s)
    /\ UNCHANGED << contract, handlers >>

\* the rest of loadProducts once `left` keys remain to be read and `list` is
\* collected: after the last key it sorts the list and calls setProducts
loadProductsContinue(s, left, list) ==
    IF left = << >>
    THEN session' = [ session EXCEPT ![s].pc = "done", ![s].loadKeys = << >>,
                                     ![s].list = << >>,
                                     ![s].products = sortByTimestampDesc(list) ]
    ELSE session' = [ session EXCEPT ![s].pc = "loadProduct", ![s].loadKeys = left,
                                     ![s].list = list ]

\* loadProducts up to its read of "product_keys"; if the contract is not
\* available or the read throws, it returns and leaves products as they are
loadProductsKeys(s) ==
    /\ session[s].pc = "loadKeys"
    /\ \/ loadProductsContinue(s, parseKeys(getData(ProductKeysKey)), << >>)
       \/ session' = [ session EXCEPT ![s].pc = "done" ]
    /\ UNCHANGED << data, contract, handlers >>

\* one round of the loop of loadProducts: getData(`product_${key}`), and the
\* product is pushed if the bytes are not empty; a read that throws is skipped
loadProductsProduct(s) ==
    /\ session[s].pc = "loadProduct"
    /\ LET key == Head(session[s].loadKeys)
           productBytes == getData(ProductKey(key))
           productData == parse(productBytes)
           loaded == [ id |-> key, timestamp |-> productData.timestamp,
                       owner |-> productData.owner, status |-> productData.status ]
       IN  \/ loadProductsContinue(s, Tail(session[s].loadKeys),
                                   IF Len(productBytes) > 0
                                   THEN Append(session[s].list, loaded)
                                   ELSE session[s].list)
           \/ loadProductsContinue(s, Tail(session[s].loadKeys), session[s].list)
    /\ UNCHANGED << data, contract, handlers >>

\* the refresh button: onClick={loadProducts}
refreshProducts(s) ==
    /\ session[s].pc = "done"
    /\ session' = [ session EXCEPT ![s].pc = "loadKeys" ]
    /\ UNCHANGED << data, contract, handlers >>

SubmitStore == \E s \in Sessions : submitProductStore(s)
SubmitReadKeys == \E s \in Sessions : submitProductReadKeys(s)
SubmitWriteKeys == \E s \in Sessions : submitProductWriteKeys(s)
LoadKeys == \E s \in Sessions : loadProductsKeys(s)
LoadProduct == \E s \in Sessions : loadProductsProduct(s)
Refresh == \E s \in Sessions : refreshProducts(s)

NextFrontend ==
    \/ SubmitStore
    \/ SubmitReadKeys
    \/ SubmitWriteKeys
    \/ LoadKeys
    \/ LoadProduct
    \/ Refresh

SpecFrontend == Init /\ [][NextFrontend]_vars

\* the product ids listed under "product_keys"
storedKeys == parseKeys(getData(ProductKeysKey))
Listed(seq, id) == \E i \in 1..Len(seq) : seq[i] = id

\* C30: when two submitProduct runs have both completed successfully, the
\* list stored under "product_keys" holds both product ids (loadProducts
\* shows exactly the products whose ids it finds in that list).
C30_NoLostUpdate ==
    \A s, t \in Sessions :
        ( /\ s # t
          /\ session[s].status = "success"
          /\ session[t].status = "success" )
        => /\ Listed(storedKeys, s)
           /\ Listed(storedKeys, t)

(* ================================================================== *)
(* The web frontend: approveProduct and rejectProduct of App.tsx       *)
(* ================================================================== *)
\* The two handlers differ only in the status they write.  A handler is
\* started from a button that the page renders for a product it shows as
\* pending and as owned by the connected account; the page does not change
\* what it shows until a loadProducts has run to its end.
account(s) == s
isOwner(s, address) == account(s) = address

\* {isOwner(product.owner) && product.status === "pending" && (...buttons...)}
ownerActionsShown(s, productId) ==
    \E i \in 1..Len(session[s].products) :
        /\ session[s].products[i].id = productId
        /\ isOwner(s, session[s].products[i].owner)
        /\ session[s].products[i].status = "pending"

\* the catch block of the handler: the run ends with status "error"
decisionFailed(h) ==
    /\ handlers' = [ handlers EXCEPT ![h].pc = "done", ![h].status = "error" ]
    /\ UNCHANGED << data, session >>

\* a click on the button: the handler starts and waits out its delay
decisionStart(h, s, productId, decision) ==
    /\ handlers[h].pc = "idle"
    /\ \A g \in Handlers : g < h => handlers[g].pc # "idle"
    /\ ownerActionsShown(s, productId)
    /\ handlers' = [ handlers EXCEPT ![h].pc = "read", ![h].status = "pending",
                                     ![h].session = s, ![h].productId = productId,
                                     ![h].decision = decision ]
    /\ UNCHANGED << data, session, contract >>

approveProduct(h, s, productId) == decisionStart(h, s, productId, "approved")
rejectProduct(h, s, productId) == decisionStart(h, s, productId, "rejected")

\* const productBytes = await contract.getData(`product_${productId}`);
\* empty bytes throw "Product not found", otherwise productData is parsed
decisionRead(h) ==
    /\ handlers[h].pc = "read"
    /\ LET productBytes == getData(ProductKey(handlers[h].productId))
       IN  \/ /\ Len(productBytes) > 0
              /\ handlers' = [ handlers EXCEPT ![h].pc = "write",
                                               ![h].productData = << parse(productBytes) >> ]
              /\ UNCHANGED << data, session >>
           \/ decisionFailed(h)
    /\ UNCHANGED contract

\* updatedProduct = {...productData, status}; await contract.setData(...)
updatedProduct(h) ==
    [ handlers[h].productData[1] EXCEPT !.status = handlers[h].decision ]

decisionWrite(h) ==
    /\ handlers[h].pc = "write"
    /\ \/ /\ setData(ProductKey(handlers[h].productId), toUtf8Bytes(updatedProduct(h)))
          /\ handlers' = [ handlers EXCEPT ![h].pc = "loadKeys", ![h].status = "success" ]
          /\ UNCHANGED session
       \/ decisionFailed(h)
    /\ UNCHANGED contract

\* await loadProducts() of the handler: the rest of the run once `left` keys
\* remain to be read; after the last key the page shows the sorted list
decisionLoadContinue(h, left, list) ==
    IF left = << >>
    THEN /\ handlers' = [ handlers EXCEPT ![h].pc = "done", ![h].loadKeys = << >>,
                                          ![h].list = << >> ]
         /\ session' = [ session EXCEPT
                ![handlers[h].session].products = sortByTimestampDesc(list) ]
    ELSE /\ handlers' = [ handlers EXCEPT ![h].pc = "loadProduct",
                                          ![h].loadKeys = left, ![h].list = list ]
         /\ UNCHANGED session

decisionLoadKeys(h) ==
    /\ handlers[h].pc = "loadKeys"
    /\ \/ decisionLoadContinue(h, parseKeys(getData(ProductKeysKey)), << >>)
       \/ /\ handlers' = [ handlers EXCEPT ![h].pc = "done" ]
          /\ UNCHANGED session
    /\ UNCHANGED << data, contract >>

decisionLoadProduct(h) ==
    /\ handlers[h].pc = "loadProduct"
    /\ LET key == Head(handlers[h].loadKeys)
           productBytes == getData(ProductKey(key))
           productData == parse(productBytes)
           loaded == [ id |-> key, timestamp |-> productData.timestamp,
                       owner |-> productData.owner, status |-> productData.status ]
       IN  \/ decisionLoadContinue(h, Tail(handlers[h].loadKeys),
                                   IF Len(productBytes) > 0
                                   THEN Append(handlers[h].list, loaded)
                                   ELSE handlers[h].list)
           \/ decisionLoadContinue(h, Tail(handlers[h].loadKeys), handlers[h].list)
    /\ UNCHANGED << data, contract >>

Approve == \E h \in Handlers, s \in Sessions, id \in Sessions : approveProduct(h, s, id)
Reject == \E h \in Handlers, s \in Sessions, id \in Sessions : rejectProduct(h, s, id)
DecisionRead == \E h \in Handlers : decisionRead(h)
DecisionWrite == \E h \in Handlers : decisionWrite(h)
DecisionLoadKeys == \E h \in Handlers : decisionLoadKeys(h)
DecisionLoadProduct == \E h \in Handlers : decisionLoadProduct(h)

\* The catalogue once session 1 has submitted a product with success and
\* every page has loaded it: the product is stored as pending, its id is
\* listed under "product_keys", and each page shows it.
SubmittedProduct(t) == ProductData(t, account(1))
ShownProduct(t) == [ id |-> 1, timestamp |-> t, owner |-> account(1), status |-> "pending" ]

InitDecide ==
    /\ profileCount = 0
    /\ recommendationCount = 0
    /\ encryptedProfiles = [ i \in SubjectIds |-> ZeroProfile ]
    /\ encryptedRecommendations = [ i \in SubjectIds |-> ZeroRecommendation ]
    /\ decryptedResults = [ i \in SubjectIds |-> ZeroResult ]
    /\ requestToProfileId = [ r \in RequestIds |-> 0 ]
    /\ recommendationRequestToId = [ r \in RequestIds |-> 0 ]
    /\ counterRequest = 1
    /\ resolved = { }
    /\ lastCall = Call("constructor", Ok, 0, 0, << >>)
    /\ \E t \in Timestamps :
          /\ data = [ k \in DataKeys |->
                        IF k = ProductKeysKey THEN toUtf8Bytes(<< 1 >>)
                        ELSE IF k = ProductKey(1) THEN toUtf8Bytes(SubmittedProduct(t))
                        ELSE EmptyBytes ]
          /\ session = [ s \in Sessions |->
                           [ IdleSession EXCEPT !.pc = "done",
                                                !.status = IF s = 1 THEN "success" ELSE "none",
                                                !.products = << ShownProduct(t) >> ] ]
    /\ handlers = [ h \in Handlers |-> IdleHandler ]

NextDecide ==
    \/ LoadKeys
    \/ LoadProduct
    \/ Refresh
    \/ Approve
    \/ Reject
    \/ DecisionRead
    \/ DecisionWrite
    \/ DecisionLoadKeys
    \/ DecisionLoadProduct

SpecDecide == InitDecide /\ [][NextDecide]_vars

\* the status of the product stored under `product_<id>`, "none" if there is none
storedStatus(bytes) == IF Len(bytes) > 0 THEN parse(bytes).status ELSE "none"

\* C31: once the stored status of a product is approved or rejected, no step
\* of any handler changes it again.
C31_DecidedStatusIsFinal ==
    [][ \A id \in Sessions :
            storedStatus(data[ProductKey(id)]) \in { "approved", "rejected" }
            => storedStatus(data'[ProductKey(id)]) = storedStatus(data[ProductKey(id)])
      ]_vars

====
